---- MODULE Spec2Model ----
(***************************************************************************)
(* The AMQP field codec of txamqp (src/src/txamqp/codec.py): one Codec     *)
(* bound to one byte stream, its encode_* / decode_* methods, the bit      *)
(* queues, and the encode / flush / reset / decode driver of test().       *)
(*                                                                         *)
(* Bytes are the numbers 0..255 and a Python str is a sequence of them.    *)
(* A Python integer is held as four 16-bit limbs <<l3, l2, l1, l0>>, of    *)
(* value l3*2^48 + l2*2^32 + l1*2^16 + l0, the top limb carrying the sign: *)
(* every integer of the codec's widths (8 to 64 bits, signed or unsigned)  *)
(* has exactly one such form, and no arithmetic leaves TLC's 32-bit        *)
(* integer range.                                                          *)
(***************************************************************************)
EXTENDS Integers, Sequences, FiniteSets, TLC

VARIABLES stream, pos, nwrote, nread, incoming_bits, outgoing_bits,
          short, mode, sent, got, err

vars == <<stream, pos, nwrote, nread, incoming_bits, outgoing_bits,
          short, mode, sent, got, err>>

(* ------------------------------ bounds -------------------------------- *)

\* encode calls (and explicit flushes) of one run that mixes bits and values
MaxCalls == 3
\* encode_bit calls of a run that encodes bits only
MaxBits == 9
\* length of an encoded string
MaxStr == 2
\* bytes that follow the size field of a crafted field array
MaxBody == 4
\* bytes that follow the tag byte of a crafted field value
MaxPad == 9

(* --------------------------- Python values ---------------------------- *)

Pow2(n) == 2 ^ n

Limb == Pow2(16)

NumOfInt(n) ==
  LET lo == n % Limb
      hi == (n - lo) \div Limb
  IN  <<IF n < 0 THEN -1 ELSE 0, IF n < 0 THEN Limb - 1 ELSE 0, hi % Limb, lo>>

NumOfLimbs(h, l) == <<0, 0, h, l>>

\* the small natural a limb form stands for (all but the low limb zero)
IntOfNum(v) == v[4]

\* a < b on limb forms: the top limb is signed, the others unsigned
NumLess(a, b) ==
  \/ a[1] < b[1]
  \/ a[1] = b[1] /\ a[2] < b[2]
  \/ a[1] = b[1] /\ a[2] = b[2] /\ a[3] < b[3]
  \/ a[1] = b[1] /\ a[2] = b[2] /\ a[3] = b[3] /\ a[4] < b[4]

NumIsZero(v) == v = <<0, 0, 0, 0>>

\* -v for v >= 0
NumNeg(v) ==
  IF NumIsZero(v) THEN v
  ELSE LET c4 == (Limb - v[4]) % Limb
           b4 == IF v[4] = 0 THEN 0 ELSE 1
           t3 == Limb - 1 - v[3] + (1 - b4)
           c3 == t3 % Limb
           b3 == IF t3 >= Limb THEN 0 ELSE 1
           t2 == Limb - 1 - v[2] + (1 - b3)
           c2 == t2 % Limb
           b2 == IF t2 >= Limb THEN 0 ELSE 1
       IN  <<(-1 - v[1]) + (1 - b2), c2, c3, c4>>

\* v \div 10 and v % 10 for v >= 0
NumDivMod10(v) ==
  LET t1 == v[1]
      t2 == (t1 % 10) * Limb + v[2]
      t3 == (t2 % 10) * Limb + v[3]
      t4 == (t3 % 10) * Limb + v[4]
  IN  [q |-> <<t1 \div 10, t2 \div 10, t3 \div 10, t4 \div 10>>, r |-> t4 % 10]

\* v * 10 for v >= 0
NumMul10(v) ==
  LET t4 == v[4] * 10
      t3 == v[3] * 10 + t4 \div Limb
      t2 == v[2] * 10 + t3 \div Limb
  IN  <<v[1] * 10 + t2 \div Limb, t2 % Limb, t3 % Limb, t4 % Limb>>

NoVal == [k |-> "none", v |-> <<>>]
PyBool(b) == [k |-> "bool", v |-> b]
PyInt(n) == [k |-> "int", v |-> n]
PyStr(s) == [k |-> "str", v |-> s]
PyFloat(bits) == [k |-> "float", v |-> bits]
PyTuple(s) == [k |-> "tuple", v |-> s]
PyList(s) == [k |-> "list", v |-> s]
PyDict(f) == [k |-> "dict", v |-> f]
PyDecimal(sign, coef, exp) ==
  [k |-> "Decimal", v |-> [sign |-> sign, coef |-> coef, exp |-> exp]]

(* ------------------------- struct.pack / unpack ----------------------- *)

Format(fmt) ==
  CASE fmt = "!?" -> [kind |-> "bool", size |-> 1, signed |-> FALSE]
    [] fmt = "!b" -> [kind |-> "int", size |-> 1, signed |-> TRUE]
    [] fmt = "!B" -> [kind |-> "int", size |-> 1, signed |-> FALSE]
    [] fmt = "!h" -> [kind |-> "int", size |-> 2, signed |-> TRUE]
    [] fmt = "!H" -> [kind |-> "int", size |-> 2, signed |-> FALSE]
    [] fmt = "!i" -> [kind |-> "int", size |-> 4, signed |-> TRUE]
    [] fmt = "!l" -> [kind |-> "int", size |-> 4, signed |-> TRUE]
    [] fmt = "!L" -> [kind |-> "int", size |-> 4, signed |-> FALSE]
    [] fmt = "!q" -> [kind |-> "int", size |-> 8, signed |-> TRUE]
    [] fmt = "!Q" -> [kind |-> "int", size |-> 8, signed |-> FALSE]
    [] fmt = "!f" -> [kind |-> "float", size |-> 4, signed |-> FALSE]
    [] fmt = "!d" -> [kind |-> "float", size |-> 8, signed |-> FALSE]
    [] fmt = "!c" -> [kind |-> "char", size |-> 1, signed |-> FALSE]
    [] fmt = "!x" -> [kind |-> "pad", size |-> 1, signed |-> FALSE]

calcsize(fmt) == Format(fmt).size

\* the eight bytes of the two's complement form, most significant first
Bytes8(v) ==
  LET t == v[1] % Limb
  IN  <<t \div 256, t % 256, v[2] \div 256, v[2] % 256,
        v[3] \div 256, v[3] % 256, v[4] \div 256, v[4] % 256>>

InRange(v, size, signed) ==
  LET b == Bytes8(v)
      neg == v[1] < 0
  IN  IF signed
      THEN /\ v[1] >= -(Limb \div 2) /\ v[1] < Limb \div 2
           /\ \A i \in 1..(8 - size) : b[i] = IF neg THEN 255 ELSE 0
           /\ (b[9 - size] >= 128) = neg
      ELSE /\ v[1] >= 0 /\ v[1] < Limb
           /\ \A i \in 1..(8 - size) : b[i] = 0

\* struct.pack(fmt, arg): big-endian, fixed width; a value outside the range
\* of the format is a struct.error (the packer of Python 2.7)
struct_pack(fmt, arg) ==
  LET f == Format(fmt)
  IN  CASE f.kind = "int" ->
             LET v == IF arg.k = "bool" THEN NumOfInt(IF arg.v THEN 1 ELSE 0)
                      ELSE arg.v
             IN  IF arg.k \in {"int", "bool"} /\ InRange(v, f.size, f.signed)
                 THEN [err |-> "none", data |-> SubSeq(Bytes8(v), 9 - f.size, 8)]
                 ELSE [err |-> "struct.error", data |-> <<>>]
        [] f.kind = "bool" ->
             LET truth == CASE arg.k = "bool" -> arg.v
                            [] arg.k = "int" -> ~NumIsZero(arg.v)
                            [] arg.k \in {"str", "list", "tuple"} -> arg.v # <<>>
                            [] OTHER -> TRUE
             IN  [err |-> "none", data |-> <<IF truth THEN 1 ELSE 0>>]
        [] f.kind = "char" ->
             IF arg.k = "str" /\ Len(arg.v) = 1
             THEN [err |-> "none", data |-> arg.v]
             ELSE [err |-> "struct.error", data |-> <<>>]
        [] f.kind = "pad" ->
             \* "x" takes no argument: packing one is an argument-count error
             [err |-> "struct.error", data |-> <<>>]

\* struct.unpack(fmt, data): the tuple of values, struct.error on a wrong length
struct_unpack(fmt, data) ==
  LET f == Format(fmt)
  IN  IF Len(data) # f.size THEN [err |-> "struct.error", values |-> <<>>]
      ELSE CASE f.kind = "int" ->
                  LET neg == f.signed /\ data[1] >= 128
                      ext == [i \in 1..(8 - f.size) |-> IF neg THEN 255 ELSE 0] \o data
                      limb(j) == ext[2 * j - 1] * 256 + ext[2 * j]
                  IN  [err |-> "none",
                       values |-> <<PyInt(<<IF neg THEN limb(1) - Limb ELSE limb(1),
                                            limb(2), limb(3), limb(4)>>)>>]
             [] f.kind = "bool" ->
                  [err |-> "none", values |-> <<PyBool(data[1] # 0)>>]
             [] f.kind = "float" ->
                  [err |-> "none", values |-> <<PyFloat(data)>>]
             [] f.kind = "char" ->
                  [err |-> "none", values |-> <<PyStr(data)>>]
             [] f.kind = "pad" ->
                  [err |-> "none", values |-> <<>>]

(* ------------------------------- Codec -------------------------------- *)

\* Codec.__init__: the counters at zero and both bit queues empty.  The field
\* short is a history field: some read returned fewer bytes than it asked for.
Codec(s) ==
  [stream |-> s, pos |-> 0, nwrote |-> 0, nread |-> 0,
   incoming_bits |-> <<>>, outgoing_bits |-> <<>>, short |-> FALSE]

\* a call returns the codec as it leaves it, the exception raised ("none" when
\* it returns) and, for a decoder, the value returned
Ok(c) == [c |-> c, err |-> "none"]
Fail(c, e) == [c |-> c, err |-> e]
Ret(c, v) == [c |-> c, err |-> "none", val |-> v]
Raise(c, e) == [c |-> c, err |-> e, val |-> NoVal]

\* an exception raised by a call ends the calling method; otherwise it goes on
Then(r, Rest(_)) == IF r.err # "none" THEN r ELSE Rest(r)

\* stream.read(n): at most n bytes from the position, which moves past them
stream_read(c, n) ==
  LET avail == Len(c.stream) - c.pos
      k == IF n < avail THEN n ELSE avail
  IN  [c |-> [c EXCEPT !.pos = @ + k],
       data |-> SubSeq(c.stream, c.pos + 1, c.pos + k)]

\* stream.write(s): over the bytes at the position, extending the stream
stream_write(c, s) ==
  [c EXCEPT !.stream = SubSeq(@, 1, c.pos) \o s
                         \o SubSeq(@, c.pos + Len(s) + 1, Len(@)),
            !.pos = @ + Len(s)]

read_data(c, n, data) ==
  IF n > 0 /\ Len(data) = 0 THEN Raise(c, "EOF")
  ELSE Ret([c EXCEPT !.nread = @ + Len(data)], PyStr(data))

read(c, n) ==
  LET r == stream_read(c, n)
  IN  read_data([r.c EXCEPT !.short = @ \/ Len(r.data) < n], n, r.data)

\* a packer that fills an octet from its high bit down
SetBit_msb(byte, index) == byte + Pow2(7 - index)

\* bytes[-1] |= 1 << index
SetBit(byte, index) ==
  IF (byte \div Pow2(index)) % 2 = 1 THEN byte ELSE byte + Pow2(index)

\* the loop of flushbits that packs the queued bits, eight to an octet
RECURSIVE flushbits_pack(_, _, _)
flushbits_pack(bits, bytes, index) ==
  IF bits = <<>> THEN bytes
  ELSE LET bytes1 == IF index = 0 THEN Append(bytes, 0) ELSE bytes
           bytes2 == IF Head(bits)
                     THEN [bytes1 EXCEPT ![Len(bytes1)] = SetBit(@, index)]
                     ELSE bytes1
       IN  flushbits_pack(Tail(bits), bytes2, (index + 1) % 8)

RECURSIVE flushbits(_), flushbits_emit(_, _), write(_, _), pack(_, _, _)
RECURSIVE encode_short_short_uint(_, _), encode_octet(_, _)

\* a write that leaves the queued bits where they are
write_noflush(c, s) == Ok([stream_write(c, s) EXCEPT !.nwrote = @ + Len(s)])

write(c, s) ==
  Then(flushbits(c),
       LAMBDA f : Ok([stream_write(f.c, s) EXCEPT !.nwrote = @ + Len(s)]))

pack_data(c, p) == IF p.err # "none" THEN Fail(c, p.err) ELSE write(c, p.data)

pack(c, fmt, arg) == pack_data(c, struct_pack(fmt, arg))

encode_short_short_uint(c, o) == pack(c, "!B", o)

encode_octet(c, o) == encode_short_short_uint(c, o)

\* the loop of flushbits that writes the packed octets
flushbits_emit(c, bytes) ==
  IF bytes = <<>> THEN Ok(c)
  ELSE Then(encode_octet(c, PyInt(NumOfInt(Head(bytes)))),
            LAMBDA r : flushbits_emit(r.c, Tail(bytes)))

flushbits(c) ==
  IF Len(c.outgoing_bits) > 0
  THEN flushbits_emit([c EXCEPT !.outgoing_bits = <<>>],
                      flushbits_pack(c.outgoing_bits, <<>>, 0))
  ELSE Ok(c)

\* stream.flush() changes nothing the codec can observe
flush(c) == flushbits(c)

unpack_values(c, u) ==
  IF u.err # "none" THEN Raise(c, u.err)
  ELSE IF Len(u.values) = 1 THEN Ret(c, u.values[1])
  ELSE Ret(c, PyTuple(u.values))

unpack(c, fmt) ==
  Then(read(c, calcsize(fmt)),
       LAMBDA r : unpack_values(r.c, struct_unpack(fmt, r.val.v)))

\* the truth value of a Python object, as "if o:" takes it
Truth(o) ==
  CASE o.k = "bool" -> o.v
    [] o.k = "int" -> ~NumIsZero(o.v)
    [] o.k \in {"str", "list", "tuple"} -> o.v # <<>>
    [] OTHER -> TRUE

encode_bit(c, o) ==
  IF Truth(o) THEN Ok([c EXCEPT !.outgoing_bits = Append(@, TRUE)])
  ELSE Ok([c EXCEPT !.outgoing_bits = Append(@, FALSE)])

decode_short_short_uint(c) == unpack(c, "!B")

decode_octet(c) == decode_short_short_uint(c)

\* an unpacker that reads an octet from its high bit down
decode_bit_fill_msb(bits) == [i \in 1..8 |-> (bits \div Pow2(8 - i)) % 2 # 0]

\* for i in range(8): self.incoming_bits.append(bits >> i & 1 != 0)
decode_bit_fill(bits) == [i \in 1..8 |-> (bits \div Pow2(i - 1)) % 2 # 0]

\* return self.incoming_bits.pop(0)
decode_bit_pop(c) ==
  Ret([c EXCEPT !.incoming_bits = Tail(@)], PyBool(Head(c.incoming_bits)))

decode_bit(c) ==
  IF Len(c.incoming_bits) = 0
  THEN Then(decode_octet(c),
            LAMBDA r : decode_bit_pop([r.c EXCEPT !.incoming_bits =
                                         @ \o decode_bit_fill(IntOfNum(r.val.v))]))
  ELSE decode_bit_pop(c)

encode_boolean(c, o) == pack(c, "!?", o)
decode_boolean(c) == unpack(c, "!?")
encode_short_short_int(c, o) == pack(c, "!b", o)
decode_short_short_int(c) == unpack(c, "!b")
encode_short_int(c, o) == pack(c, "!h", o)
decode_short_int(c) == unpack(c, "!h")
encode_short_uint(c, o) == pack(c, "!H", o)
decode_short_uint(c) == unpack(c, "!H")
encode_long_int(c, o) == pack(c, "!l", o)
decode_long_int(c) == unpack(c, "!l")
encode_long_uint(c, o) == pack(c, "!L", o)
decode_long_uint(c) == unpack(c, "!L")
encode_long_long_int(c, o) == pack(c, "!q", o)
decode_long_long_int(c) == unpack(c, "!q")
encode_long_long_uint(c, o) == pack(c, "!Q", o)
decode_long_long_uint(c) == unpack(c, "!Q")
decode_float(c) == unpack(c, "!f")
decode_double(c) == unpack(c, "!d")

(* ------------------------------ decimal ------------------------------- *)

\* Decimal.normalize() on (sign, coef, exp): trailing zero digits removed,
\* a zero brought to exponent 0
RECURSIVE normalize(_)
normalize(d) ==
  IF NumIsZero(d.coef) THEN [d EXCEPT !.exp = 0]
  ELSE IF NumDivMod10(d.coef).r = 0
       THEN normalize([d EXCEPT !.coef = NumDivMod10(d.coef).q, !.exp = @ + 1])
       ELSE d

\* coef * 10^exp for exp >= 0
RECURSIVE Scale10(_, _)
Scale10(coef, exp) == IF exp = 0 THEN coef ELSE Scale10(NumMul10(coef), exp - 1)

Signed(sign, coef) == IF sign = 1 THEN NumNeg(coef) ELSE coef

\* the tag "D", the decimals octet, the raw value
encode_decimal_parts(c, decimals, raw) ==
  Then(pack(c, "!c", PyStr(<<68>>)),
       LAMBDA r1 : Then(pack(r1.c, "!B", PyInt(NumOfInt(decimals))),
                        LAMBDA r2 : pack(r2.c, "!i", PyInt(raw))))

encode_decimal_normal(c, value) ==
  IF value.exp < 0
  THEN encode_decimal_parts(c, -value.exp, Signed(value.sign, value.coef))
  ELSE encode_decimal_parts(c, 0, Signed(value.sign, Scale10(value.coef, value.exp)))

encode_decimal_value(c, o) ==
  IF o.k # "Decimal" THEN Fail(c, "ValueError: Uncompatible type")
  ELSE encode_decimal_normal(c, normalize(o.v))

decode_decimal_value(c) ==
  Then(decode_short_short_uint(c),
       LAMBDA r1 : Then(decode_long_uint(r1.c),
                        LAMBDA r2 : Ret(r2.c, PyDecimal(0, r2.val.v,
                                                        -IntOfNum(r1.val.v)))))

(* ------------------------------ strings ------------------------------- *)

\* a decoded size as the argument of read: sizes of 2^30 and more ask for
\* more than any stream of the model holds, and read alike
SizeArg(v) ==
  IF v[1] = 0 /\ v[2] = 0 /\ v[3] < Pow2(14) THEN v[3] * Limb + v[4] ELSE Pow2(30)

len(s) == PyInt(NumOfInt(Len(s.v)))

encode_short_string(c, s) ==
  Then(encode_short_short_uint(c, len(s)), LAMBDA r : write(r.c, s.v))

decode_short_string(c) ==
  Then(decode_short_short_uint(c), LAMBDA r : read(r.c, SizeArg(r.val.v)))

encode_long_string(c, s) ==
  Then(encode_short_short_uint(c, len(s)), LAMBDA r : write(r.c, s.v))

decode_long_string(c) ==
  Then(decode_long_uint(c), LAMBDA r : read(r.c, SizeArg(r.val.v)))

enc_str(c, fmt, s) == Then(pack(c, fmt, len(s)), LAMBDA r : write(r.c, s.v))

dec_str(c, fmt) == Then(unpack(c, fmt), LAMBDA r : read(r.c, SizeArg(r.val.v)))

encode_shortstr(c, s) == encode_short_string(c, s)
decode_shortstr(c) == decode_short_string(c)
decode_longstr(c) == dec_str(c, "!L")

encode_timestamp(c, o) == encode_long_long_uint(c, o)
decode_timestamp(c) == decode_long_long_uint(c)
encode_none(c, o) == pack(c, "!x", o)
decode_none(c) == unpack(c, "!x")
encode_short(c, o) == encode_short_uint(c, o)
decode_short(c) == decode_short_uint(c)
encode_long(c, o) == encode_long_uint(c, o)
decode_long(c) == decode_long_uint(c)
encode_longlong(c, o) == encode_long_long_uint(c, o)
decode_longlong(c) == decode_long_long_uint(c)

(* ------------------- field values, arrays and tables ------------------ *)

\* the byte of a tag character
Ord(ch) ==
  CASE ch = "t" -> 116 [] ch = "b" -> 98 [] ch = "B" -> 66 [] ch = "U" -> 85
    [] ch = "u" -> 117 [] ch = "I" -> 73 [] ch = "i" -> 105 [] ch = "L" -> 76
    [] ch = "l" -> 108 [] ch = "f" -> 102 [] ch = "d" -> 100 [] ch = "D" -> 68
    [] ch = "s" -> 115 [] ch = "S" -> 83 [] ch = "A" -> 65 [] ch = "T" -> 84
    [] ch = "F" -> 70 [] ch = "V" -> 86

\* result[key] = value
SetItem(d, key, value) ==
  [x \in DOMAIN d \cup {key} |-> IF x = key THEN value ELSE d[x]]

EmptyDict == [x \in {} |-> NoVal]

RECURSIVE field_value(_), field_value_of(_, _)
RECURSIVE decode_field_array(_), decode_field_array_loop(_, _, _, _)
RECURSIVE decode_field_table(_), decode_field_table_loop(_, _, _, _)

field_value_of(c, type) ==
  CASE type = <<Ord("t")>> -> decode_boolean(c)
    [] type = <<Ord("b")>> -> decode_short_short_int(c)
    [] type = <<Ord("B")>> -> decode_short_short_uint(c)
    [] type = <<Ord("U")>> -> decode_short_int(c)
    [] type = <<Ord("u")>> -> decode_short_uint(c)
    [] type = <<Ord("I")>> -> decode_long_int(c)
    [] type = <<Ord("i")>> -> decode_long_uint(c)
    [] type = <<Ord("L")>> -> decode_long_long_int(c)
    [] type = <<Ord("l")>> -> decode_long_long_uint(c)
    [] type = <<Ord("f")>> -> decode_float(c)
    [] type = <<Ord("d")>> -> decode_double(c)
    [] type = <<Ord("D")>> -> decode_decimal_value(c)
    [] type = <<Ord("s")>> -> decode_short_string(c)
    [] type = <<Ord("S")>> -> decode_long_string(c)
    [] type = <<Ord("A")>> -> decode_field_array(c)
    [] type = <<Ord("T")>> -> decode_timestamp(c)
    [] type = <<Ord("F")>> -> decode_field_table(c)
    [] type = <<Ord("V")>> -> decode_none(c)
    [] OTHER -> Raise(c, "ValueError: Unkown value type")

field_value(c) == Then(read(c, 1), LAMBDA r : field_value_of(r.c, r.val.v))

\* while self.nread - start < size: result.append(self.field_value())
decode_field_array_loop(c, size, start, result) ==
  IF NumLess(NumOfInt(c.nread - start), size)
  THEN Then(field_value(c),
            LAMBDA r : decode_field_array_loop(r.c, size, start,
                                               Append(result, r.val)))
  ELSE Ret(c, PyList(result))

\* a decoder that returns the list whatever it consumed
decode_field_array_nocheck(r, size, start) == r

\* real_size = self.nread - start; if real_size != size: raise ValueError
decode_field_array_check(r, size, start) ==
  IF NumOfInt(r.c.nread - start) # size
  THEN Raise(r.c, "ValueError: Problem with size of field array")
  ELSE r

decode_field_array(c) ==
  Then(decode_long_int(c),
       LAMBDA s : Then(decode_field_array_loop(s.c, s.val.v, s.c.nread, <<>>),
                       LAMBDA r : decode_field_array_check(r, s.val.v, s.c.nread)))

\* while self.nread - start < size: key = ...; result[key] = self.field_value()
decode_field_table_loop(c, size, start, result) ==
  IF NumLess(NumOfInt(c.nread - start), size)
  THEN Then(decode_short_string(c),
            LAMBDA k : Then(field_value(k.c),
                            LAMBDA r : decode_field_table_loop(r.c, size, start,
                                         SetItem(result, k.val.v, r.val))))
  ELSE Ret(c, PyDict(result))

decode_field_table(c) ==
  Then(decode_long_uint(c),
       LAMBDA s : decode_field_table_loop(s.c, s.val.v, s.c.nread, EmptyDict))

decode_table(c) == decode_field_table(c)

RECURSIVE encode_field_table(_, _, _), encode_field_table_loop(_, _, _)
RECURSIVE encode_table(_, _, _), encode_longstr(_, _, _)

\* if isinstance(value, basestring): "S" and a long string; else: "I" and a long
encode_field_table_value(codec, value) ==
  IF value.k = "str"
  THEN Then(write(codec, <<Ord("S")>>), LAMBDA r : encode_longstr(r.c, value, <<>>))
  ELSE Then(write(codec, <<Ord("I")>>), LAMBDA r : encode_long(r.c, value))

\* for key, value in tbl.items(): items is the order the dict yields its keys in
encode_field_table_loop(codec, tbl, items) ==
  IF items = <<>> THEN Ok(codec)
  ELSE Then(encode_shortstr(codec, PyStr(Head(items))),
            LAMBDA r1 : Then(encode_field_table_value(r1.c, tbl.v[Head(items)]),
                             LAMBDA r2 : encode_field_table_loop(r2.c, tbl,
                                                                 Tail(items))))

\* s = enc.getvalue(); self.encode_long_uint(len(s)); self.write(s)
encode_field_table_body(c, e) ==
  IF e.err # "none" THEN Fail(c, e.err)
  ELSE Then(encode_long_uint(c, len(PyStr(e.c.stream))),
            LAMBDA r : write(r.c, e.c.stream))

encode_field_table(c, tbl, items) ==
  encode_field_table_body(c, encode_field_table_loop(Codec(<<>>), tbl, items))

encode_table(c, tbl, items) == encode_field_table(c, tbl, items)

encode_longstr(c, s, items) ==
  IF s.k = "dict" THEN encode_table(c, s, items) ELSE enc_str(c, "!L", s)

(* ------------------------- encode / decode ---------------------------- *)

\* getattr(self, "encode_" + type)(value); items is the order in which a dict
\* value yields its keys (unused for any other value)
encode(c, type, value, items) ==
  CASE type = "bit" -> encode_bit(c, value)
    [] type = "boolean" -> encode_boolean(c, value)
    [] type = "short_short_int" -> encode_short_short_int(c, value)
    [] type = "short_short_uint" -> encode_short_short_uint(c, value)
    [] type = "short_int" -> encode_short_int(c, value)
    [] type = "short_uint" -> encode_short_uint(c, value)
    [] type = "long_int" -> encode_long_int(c, value)
    [] type = "long_uint" -> encode_long_uint(c, value)
    [] type = "long_long_int" -> encode_long_long_int(c, value)
    [] type = "long_long_uint" -> encode_long_long_uint(c, value)
    [] type = "decimal_value" -> encode_decimal_value(c, value)
    [] type = "short_string" -> encode_short_string(c, value)
    [] type = "long_string" -> encode_long_string(c, value)
    [] type = "timestamp" -> encode_timestamp(c, value)
    [] type = "table" -> encode_table(c, value, items)
    [] type = "field_table" -> encode_field_table(c, value, items)
    [] type = "none" -> encode_none(c, value)
    [] type = "octet" -> encode_octet(c, value)
    [] type = "short" -> encode_short(c, value)
    [] type = "long" -> encode_long(c, value)
    [] type = "longlong" -> encode_longlong(c, value)
    [] type = "shortstr" -> encode_shortstr(c, value)
    [] type = "longstr" -> encode_longstr(c, value, items)
    [] OTHER -> Fail(c, "AttributeError")

\* getattr(self, "decode_" + type)()
decode(c, type) ==
  CASE type = "bit" -> decode_bit(c)
    [] type = "boolean" -> decode_boolean(c)
    [] type = "short_short_int" -> decode_short_short_int(c)
    [] type = "short_short_uint" -> decode_short_short_uint(c)
    [] type = "short_int" -> decode_short_int(c)
    [] type = "short_uint" -> decode_short_uint(c)
    [] type = "long_int" -> decode_long_int(c)
    [] type = "long_uint" -> decode_long_uint(c)
    [] type = "long_long_int" -> decode_long_long_int(c)
    [] type = "long_long_uint" -> decode_long_long_uint(c)
    [] type = "float" -> decode_float(c)
    [] type = "double" -> decode_double(c)
    [] type = "decimal_value" -> decode_decimal_value(c)
    [] type = "short_string" -> decode_short_string(c)
    [] type = "long_string" -> decode_long_string(c)
    [] type = "field_array" -> decode_field_array(c)
    [] type = "timestamp" -> decode_timestamp(c)
    [] type = "table" -> decode_table(c)
    [] type = "field_table" -> decode_field_table(c)
    [] type = "none" -> decode_none(c)
    [] type = "octet" -> decode_octet(c)
    [] type = "short" -> decode_short(c)
    [] type = "long" -> decode_long(c)
    [] type = "longlong" -> decode_longlong(c)
    [] type = "shortstr" -> decode_shortstr(c)
    [] type = "longstr" -> decode_longstr(c)
    [] OTHER -> Raise(c, "AttributeError")

DecodeTypes ==
  {"bit", "boolean", "short_short_int", "short_short_uint", "short_int",
   "short_uint", "long_int", "long_uint", "long_long_int", "long_long_uint",
   "float", "double", "decimal_value", "short_string", "long_string",
   "field_array", "timestamp", "table", "field_table", "none", "octet",
   "short", "long", "longlong", "shortstr", "longstr"}

(* ------------------------------ inputs -------------------------------- *)

SeqsUpTo(S, n) == UNION {[1..m -> S] : m \in 0..n}

\* every order of the keys of a dict
Orders(K) ==
  {o \in [1..Cardinality(K) -> K] : \A i, j \in DOMAIN o : i # j => o[i] # o[j]}

Input(type, value) == [type |-> type, value |-> value, items |-> <<>>]

BitInputs == {Input("bit", PyBool(b)) : b \in BOOLEAN}

OctetInputs == {Input("octet", PyInt(NumOfInt(n))) : n \in {1, 5}}

Strings == SeqsUpTo({97, 98}, MaxStr)

StringInputs ==
  {Input(t, PyStr(s)) :
     t \in {"short_string", "long_string", "shortstr", "longstr"}, s \in Strings}

\* 3.14, 100 and more: (sign, coefficient, exponent)
Decimals ==
  {PyDecimal(0, NumOfInt(314), -2), PyDecimal(0, NumOfInt(100), 0),
   PyDecimal(1, NumOfInt(314), -2), PyDecimal(0, NumOfInt(1000), -2),
   PyDecimal(0, NumOfInt(0), 0), PyDecimal(1, NumOfInt(1), 0),
   PyDecimal(0, NumOfInt(5), -1), PyDecimal(0, NumOfInt(1), 2),
   PyDecimal(0, NumOfLimbs(32767, 65535), 0), PyDecimal(1, NumOfLimbs(32768, 0), 0),
   PyDecimal(0, NumOfLimbs(32768, 0), 0)}

DecimalInputs == {Input("decimal_value", d) : d \in Decimals}

Integers32 ==
  {NumOfInt(0), NumOfInt(1), NumOfInt(255), NumOfInt(-1),
   NumOfLimbs(32768, 0), NumOfLimbs(65535, 65535)}

IntegerInputs ==
  {Input(t, PyInt(n)) :
     t \in {"short_short_int", "short_short_uint", "short_int", "short_uint",
            "long_int", "long_uint", "long_long_int", "long_long_uint",
            "timestamp", "short", "long", "longlong"},
     n \in Integers32}

\* an integer where a Decimal is due, and None
OtherInputs == {Input("decimal_value", PyInt(NumOfInt(3))), Input("none", NoVal)}

BooleanInputs == {Input("boolean", PyBool(b)) : b \in BOOLEAN}

TableKeys == {<<97>>, <<98>>}

TableValues ==
  {PyInt(NumOfInt(1)), PyInt(NumOfLimbs(32768, 0)), PyStr(<<120>>), PyStr(<<>>)}

Tables == UNION {[K -> TableValues] : K \in SUBSET TableKeys}

TableInputs ==
  UNION {{[type |-> t, value |-> PyDict(f), items |-> o] :
            t \in {"table", "field_table"}, o \in Orders(DOMAIN f)} : f \in Tables}

Zeros(n) == [i \in 1..n |-> 0]

\* a tag byte, any of the 256, and the bytes after it
TagStreams == {<<t>> \o Zeros(n) : t \in 0..255, n \in 0..MaxPad}

\* the four bytes of a signed size field
SizeField(n) == SubSeq(Bytes8(NumOfInt(n)), 5, 8)

\* an unknown tag or payload byte, "B" (one payload byte), "u" (two)
ArrayBytes == {0, 66, 117}

ArrayStreams ==
  {SizeField(n) \o body : n \in (-1)..(MaxBody + 1), body \in SeqsUpTo(ArrayBytes, MaxBody)}

CraftedStreams == {<<>>} \cup TagStreams \cup ArrayStreams

(* ------------------------- the state machine -------------------------- *)

Self ==
  [stream |-> stream, pos |-> pos, nwrote |-> nwrote, nread |-> nread,
   incoming_bits |-> incoming_bits, outgoing_bits |-> outgoing_bits,
   short |-> short]

Store(c) ==
  /\ stream' = c.stream
  /\ pos' = c.pos
  /\ nwrote' = c.nwrote
  /\ nread' = c.nread
  /\ incoming_bits' = c.incoming_bits
  /\ outgoing_bits' = c.outgoing_bits
  /\ short' = c.short

\* the codec as an encode call leaves it, and the exception it raised
Commit(r) == Store(r.c) /\ err' = r.err

\* the same for a decode call, with the value it returned
Return(type, r) ==
  /\ Store(r.c)
  /\ err' = r.err
  /\ got' = Append(got, [type |-> type, val |-> r.val])

\* stream.reset(): the position back at the start
stream_reset(r) == [r EXCEPT !.c.pos = 0]

Begin(c) ==
  /\ stream = c.stream
  /\ pos = c.pos
  /\ nwrote = c.nwrote
  /\ nread = c.nread
  /\ incoming_bits = c.incoming_bits
  /\ outgoing_bits = c.outgoing_bits
  /\ short = c.short

FlushEntry == [type |-> "flush", value |-> NoVal, items |-> <<>>]

IsLight(e) == e.type \in {"bit", "octet", "flush"}

\* the values of a run, its explicit flushes left out
Values(log) == SelectSeq(log, LAMBDA e : e.type # "flush")

\* codec = Codec(stream): over an empty stream that the run encodes into and
\* then decodes from, or over a stream that already holds bytes to decode
Init ==
  \E s \in CraftedStreams, m \in {"encode", "decode"} :
    /\ m = "encode" => s = <<>>
    /\ Begin(Codec(s))
    /\ mode = m
    /\ sent = <<>>
    /\ got = <<>>
    /\ err = "none"

\* codec.encode(type, v)
Call(inp) ==
  /\ Commit(encode(Self, inp.type, inp.value, inp.items))
  /\ sent' = Append(sent, inp)
  /\ UNCHANGED <<mode, got>>

\* a run encodes up to MaxCalls values, or up to MaxBits bits and nothing else
CanEncodeBit ==
  /\ mode = "encode"
  /\ err = "none"
  /\ \/ Len(sent) < MaxCalls
     \/ Len(sent) < MaxBits /\ \A i \in DOMAIN sent : sent[i].type = "bit"

CanEncode ==
  /\ mode = "encode"
  /\ err = "none"
  /\ Len(sent) < MaxCalls

\* a run holds at most one value that is neither a bit nor an octet
CanEncodeValue == CanEncode /\ \A i \in DOMAIN sent : IsLight(sent[i])

EncodeBit == CanEncodeBit /\ \E inp \in BitInputs : Call(inp)

EncodeOctet == CanEncode /\ \E inp \in OctetInputs : Call(inp)

EncodeValue ==
  /\ CanEncodeValue
  /\ \/ \E inp \in StringInputs : Call(inp)
     \/ \E inp \in DecimalInputs : Call(inp)
     \/ \E inp \in IntegerInputs \cup OtherInputs : Call(inp)
     \/ \E inp \in BooleanInputs : Call(inp)
     \/ \E inp \in TableInputs : Call(inp)

\* codec.flush() between two encode calls
Flush ==
  /\ mode = "encode"
  /\ err = "none"
  /\ Len(sent) < MaxCalls
  /\ Commit(flush(Self))
  /\ sent' = Append(sent, FlushEntry)
  /\ UNCHANGED <<mode, got>>

\* codec.flush(); stream.reset(): the bytes written are read back from their
\* start, as test() does
Finish ==
  /\ mode = "encode"
  /\ err = "none"
  /\ Commit(stream_reset(flush(Self)))
  /\ mode' = "readback"
  /\ UNCHANGED <<sent, got>>

\* dup.append(codec.decode(type)): the values of the run, in their order
ReadBack ==
  /\ mode = "readback"
  /\ err = "none"
  /\ Len(got) < Len(Values(sent))
  /\ Return(Values(sent)[Len(got) + 1].type,
            decode(Self, Values(sent)[Len(got) + 1].type))
  /\ UNCHANGED <<mode, sent>>

\* codec.decode(type), of any type, over a stream that came with bytes
Decode ==
  /\ mode = "decode"
  /\ err = "none"
  /\ got = <<>>
  /\ \E type \in DecodeTypes : Return(type, decode(Self, type))
  /\ UNCHANGED <<mode, sent>>

\* codec.field_value() over a stream that came with bytes
FieldValue ==
  /\ mode = "decode"
  /\ err = "none"
  /\ got = <<>>
  /\ Return("field_value", field_value(Self))
  /\ UNCHANGED <<mode, sent>>

Next == EncodeBit \/ EncodeOctet \/ EncodeValue \/ Flush \/ Finish \/ ReadBack \/ Decode \/ FieldValue

Spec == Init /\ [][Next]_vars

(* ------------------------------ claims -------------------------------- *)

\* equal Python values of one kind
Same(a, b) == a.k = b.k /\ a.v = b.v

\* Decimal values equal as numbers
DecEq(a, b) ==
  /\ a.k = "Decimal"
  /\ b.k = "Decimal"
  /\ normalize(a.v).coef = normalize(b.v).coef
  /\ normalize(a.v).exp = normalize(b.v).exp
  /\ (NumIsZero(a.v.coef) \/ a.v.sign = b.v.sign)

CeilDiv8(n) == (n + 7) \div 8

\* bit i of octet k of the queued booleans b: set iff b[8k+i] exists and is true
BitValue(b, k, i) == IF 8 * k + i < Len(b) /\ b[8 * k + i + 1] THEN Pow2(i) ELSE 0

OctetValue(b, k) ==
  BitValue(b, k, 0) + BitValue(b, k, 1) + BitValue(b, k, 2) + BitValue(b, k, 3)
    + BitValue(b, k, 4) + BitValue(b, k, 5) + BitValue(b, k, 6) + BitValue(b, k, 7)

Octets(b) == [k \in 1..CeilDiv8(Len(b)) |-> OctetValue(b, k - 1)]

AllOfType(log, types) == \A i \in DOMAIN log : log[i].type \in types

\* the run encoded exactly one value, of one of these types, and reads it back
OneValue(types) == mode = "readback" /\ Len(sent) = 1 /\ sent[1].type \in types

\* C1: N booleans through encode_bit on a fresh codec, then flush, make
\* ceil(N/8) bytes, and decode_bit gives the booleans back in their order.
C1_BitRoundTrip ==
  (mode = "readback" /\ AllOfType(sent, {"bit"})) =>
    /\ Len(stream) = CeilDiv8(Len(sent))
    /\ err = "none"
    /\ \A i \in DOMAIN got :
         got[i].val.k = "bool" /\ got[i].val.v = sent[i].value.v

C1_Witness ==
  /\ mode = "readback"
  /\ AllOfType(sent, {"bit"})
  /\ Len(sent) = 9
  /\ Len(got) = 9
  /\ sent[2].value.v
  /\ ~sent[3].value.v
  /\ sent[9].value.v

\* C2: encode_long_string(s) writes the 4-byte big-endian length of s and then
\* s, and decode_long_string gives s back.
C2_LongStringLayout ==
  OneValue({"long_string"}) =>
    /\ stream = <<0, 0, 0, Len(sent[1].value.v)>> \o sent[1].value.v
    /\ got # <<>> => err = "none" /\ Same(got[1].val, sent[1].value)

\* C3: the bytes encode_decimal_value writes for a decimal with a signed 32-bit
\* mantissa, read from their start by decode_decimal_value, give the same
\* decimal.
C3_DecimalRoundTrip ==
  (OneValue({"decimal_value"}) /\ sent[1].value.k = "Decimal" /\ got # <<>>) =>
    err = "none" /\ DecEq(got[1].val, sent[1].value)

\* C4: a decode call that finds fewer bytes in the stream than it asks for
\* raises EOF: no other error, and no value.
C4_ShortReadRaisesEOF ==
  (mode = "decode" /\ got # <<>> /\ short) => err = "EOF"

IsValueError(e) ==
  e \in {"ValueError: Problem with size of field array",
         "ValueError: Unkown value type", "ValueError: Uncompatible type"}

\* one decode_field_array call over a stream that holds the size field
ArrayCall ==
  mode = "decode" /\ Len(got) = 1 /\ got[1].type = "field_array" /\ Len(stream) >= 4

DeclaredSize == struct_unpack("!l", SubSeq(stream, 1, 4)).values[1].v

Consumed == NumOfInt(nread - 4)

C6_TableRoundTrip ==
  (OneValue({"table", "field_table"}) /\ got # <<>>) =>
    /\ err = "none"
    /\ got[1].val.k = "dict"
    /\ DOMAIN got[1].val.v = DOMAIN sent[1].value.v
    /\ \A key \in DOMAIN sent[1].value.v :
         Same(got[1].val.v[key], sent[1].value.v[key])

\* the payload widths of the fixed-width tags: t b B, U u, I i f, L l d T, V
TagWidth(t) ==
  CASE t \in {116, 98, 66} -> 1
    [] t \in {85, 117} -> 2
    [] t \in {73, 105, 102} -> 4
    [] t \in {76, 108, 100, 84} -> 8
    [] t = 86 -> 0

FixedTags == {116, 98, 66, 85, 117, 73, 105, 102, 76, 108, 100, 84, 86}

AllTags == FixedTags \cup {68, 115, 83, 65, 70}

\* C7: field_value consumes the tag byte and exactly the payload width of a
\* fixed-width tag (none for V), and raises the unknown-type error for every
\* byte that is no tag.
C7_TagTable ==
  (mode = "decode" /\ Len(got) = 1 /\ got[1].type = "field_value" /\ stream # <<>>) =>
    /\ (stream[1] \in FixedTags /\ Len(stream) >= 1 + TagWidth(stream[1])) =>
         err = "none" /\ nread = 1 + TagWidth(stream[1])
    /\ stream[1] \notin AllTags => err = "ValueError: Unkown value type"

\* a step that is one call of flush
FlushStep ==
  \/ mode = "encode" /\ mode' = "readback"
  \/ Len(sent') = Len(sent) + 1 /\ sent'[Len(sent')].type = "flush"

\* C8: flushbits writes the N queued booleans as ceil(N/8) octets, bit i of
\* octet k set iff boolean 8k+i exists and is true, empties the queue and
\* advances nwrote by ceil(N/8); with nothing queued it writes nothing.
C8_FlushBits ==
  [][FlushStep =>
       /\ stream' = stream \o Octets(outgoing_bits)
       /\ outgoing_bits' = <<>>
       /\ nwrote' = nwrote + CeilDiv8(Len(outgoing_bits))]_vars

C8_Witness ==
  /\ mode = "readback"
  /\ AllOfType(sent, {"bit"})
  /\ Len(sent) = 9
  /\ \A i \in 1..9 : sent[i].value.v = (i \in {1, 8, 9})
  /\ stream = <<129, 1>>
  /\ nwrote = 2

\* what the calls of a run put into the stream, in their order: a bit joins
\* the pending bits, a flush writes them, a value writes them and then itself
OwnBytes(e) == encode(Codec(<<>>), e.type, e.value, e.items).c.stream

RECURSIVE Replay(_, _, _)
Replay(log, bytes, pending) ==
  IF log = <<>> THEN [bytes |-> bytes, pending |-> pending]
  ELSE IF Head(log).type = "bit"
       THEN Replay(Tail(log), bytes, Append(pending, Head(log).value.v))
  ELSE IF Head(log).type = "flush"
       THEN Replay(Tail(log), bytes \o Octets(pending), <<>>)
  ELSE Replay(Tail(log), bytes \o Octets(pending) \o OwnBytes(Head(log)), <<>>)

\* C9: encode_bit writes nothing; a write of a value first writes the octets of
\* all queued bits and then its own bytes; the queue is empty after a write or
\* a flush; the stream holds the bit octets and the values in call order.
C9_FlushBeforeWrite ==
  /\ (mode = "encode" /\ err = "none") =>
       /\ stream = Replay(sent, <<>>, <<>>).bytes
       /\ outgoing_bits = Replay(sent, <<>>, <<>>).pending
  /\ mode = "readback" =>
       /\ stream = Replay(sent, <<>>, <<>>).bytes
                     \o Octets(Replay(sent, <<>>, <<>>).pending)
       /\ outgoing_bits = <<>>

C9_Witness ==
  /\ mode = "encode"
  /\ err = "none"
  /\ Len(sent) = 3
  /\ sent[1].type = "bit"
  /\ sent[1].value.v
  /\ sent[2].type = "long_string"
  /\ sent[3].type = "bit"
  /\ Len(stream) > 1
  /\ Len(outgoing_bits) = 1

\* C10: bits and other values encoded in any order, then flush, decode with the
\* same types to the same values in the same order.
C10_InterleavedRoundTrip ==
  (mode = "readback" /\ AllOfType(sent, {"bit", "octet"}) /\ err = "none") =>
    \A i \in DOMAIN got : Same(got[i].val, sent[i].value)

====
